---- MODULE Spec2Model ----
(***************************************************************************)
(* Frame orchestration of game-of-life-wgpu (src/src/main.rs).             *)
(*                                                                         *)
(* The model follows App (the winit ApplicationHandler) and State: the     *)
(* event handlers resumed and window_event, and State::new, resize,        *)
(* update and render.  Time is the monotonic clock read by Instant::now(), *)
(* in milliseconds.  The contents of the two cell-state buffers are kept   *)
(* symbolically: a buffer holds either what the program never wrote        *)
(* (Uninit) or the k-th generation of the seed (the number k).             *)
(***************************************************************************)
EXTENDS Integers, Sequences, FiniteSets, TLC

\* ---------------------------------------------------------------- bounds
\* The clock stops advancing at MaxTime milliseconds.
MaxTime == 17
\* The State is built at most MaxStart milliseconds after the clock's origin.
MaxStart == 2
\* At most MaxFrames RedrawRequested events are handled by a live State.
MaxFrames == 3
\* Window sides are 1..MaxSide pixels.
MaxSide == 2
\* A compute pass is run on every grid of side 1..MaxGrid that has at most
\* MaxAlive live cells, and on the all-dead grids of side up to MaxCover.
MaxGrid == 3
MaxAlive == 4
MaxCover == 16
\* The side of the grid whose cells the application's buffers hold in the
\* end-to-end runs.
EndToEndSide == 4
\* The same in the runs that follow the buffers by generation only: no cell.
SmallSide == 0

\* ------------------------------------------------------- program constants
\* main.rs:297  compute_delay: Duration::from_millis(8)
compute_delay == 8
\* main.rs:108  grid_size = 512
grid_size == 512
\* main.rs:330  the workgroup edge the dispatch divides by (8.0)
WorkgroupEdge == 8
\* vertex.rs:6  VERTICES: [f32; 12]
VerticesLen == 12

\* ------------------------------------------------------------------ state
VARIABLES
    state_some,           \* App.state is Some(State)
    size,                 \* State.size
    surface_config,       \* State.surface_config (width, height)
    surface,              \* what surface.configure() was last given
    bind_groups,          \* State.bind_groups
    cell_states_buffers,  \* contents of the two storage buffers
    selected_bind,        \* State.selected_bind
    last_time,            \* State.last_time
    now,                  \* the monotonic clock (Instant::now())
    exiting,              \* event_loop.exit() has been called
    running,              \* the event loop still delivers events
    redraw_requested,     \* window.request_redraw() is pending
    \* observations of what the handlers issued
    clock_init,           \* last_time as State::new set it
    prev_time,            \* last_time before the most recent tick
    dispatches,           \* dispatch_workgroups calls since State::new
    toggles,              \* executions of selected_bind ^= 1
    draws,                \* render_pass.draw calls since State::new
    frames,               \* RedrawRequested events handled by a State
    last_frame,           \* what the last handled RedrawRequested did
    \* the cells in the two storage buffers
    seed_cells,           \* cell_states as the rng loop of State::new fills it
    stale_cells,          \* what a created, unwritten buffer happens to hold
    cells,                \* the cells each of cell_states_buffers holds
    \* one compute pass, workgroup by workgroup
    pass_n,               \* the grid's side (the uniform holds [n, n])
    pass_in,              \* binding 1: the buffer the pass reads
    pass_out,             \* binding 2: the buffer the pass writes
    pass_visits,          \* invocations that have had each cell as their own
    pass_outside,         \* invocations whose id lies outside the grid
    pass_next             \* workgroups that have run

\* The variables of one compute pass.
pass_vars == <<pass_n, pass_in, pass_out, pass_visits, pass_outside,
               pass_next>>

\* The variables of the application and its event loop.
app_vars == <<state_some, size, surface_config, surface, bind_groups,
              cell_states_buffers, selected_bind, last_time, now, exiting,
              running, redraw_requested, clock_init, prev_time, dispatches,
              toggles, draws, frames, last_frame, seed_cells, stale_cells,
              cells>>

vars == <<app_vars, pass_vars>>

\* ------------------------------------------------------------ value sets
Sizes == {[width |-> w, height |-> h] : w \in 1..MaxSide, h \in 1..MaxSide}

NoSize == [width |-> 0, height |-> 0]

\* wgpu::SurfaceError, plus success
SurfaceErrors == {"Timeout", "Outdated", "Lost", "OutOfMemory"}

AcquireResults == {"Ok"} \cup SurfaceErrors

\* A storage buffer the program has not written yet.
Uninit == -1

NoBindGroups == <<>>

NoBuffers == <<>>

\* Flat n by n buffers of cell states (0 dead, 1 alive).
AllDead(n) == [i \in 0..(n * n - 1) |-> 0]

Unwritten(n) == [i \in 0..(n * n - 1) |-> Uninit]

\* The buffers with the cells of the set a alive.
GridOf(n, a) == [i \in 0..(n * n - 1) |-> IF i \in a THEN 1 ELSE 0]

AllAlive(n) == [i \in 0..(n * n - 1) |-> 1]

\* What the memory of a buffer that was never written may hold.
StaleContents ==
    {AllAlive(EndToEndSide), GridOf(EndToEndSide, {0, 1, EndToEndSide})}

\* The inputs of a compute pass: side and contents of the read buffer.
PassInputs ==
    {[n |-> n, cells |-> GridOf(n, a)] :
        n \in 1..MaxGrid,
        a \in {b \in SUBSET (0..(MaxGrid * MaxGrid - 1)) :
                  Cardinality(b) <= MaxAlive}}
    \cup {[n |-> n, cells |-> AllDead(n)] : n \in (MaxGrid + 1)..MaxCover}

\* last_frame before any RedrawRequested has been handled
NoFrame == [result |-> "None", periods |-> 0, dispatched |-> 0, draws |-> 0,
            draw_bind |-> 0, draw_vertices |-> 0, draw_instances |-> 0,
            draw_reads |-> Uninit, configured |-> FALSE,
            configured_size |-> NoSize, redraw |-> FALSE, exit |-> FALSE,
            draw_cells |-> NoBuffers]

\* ------------------------------------------------------------- State::new
\* The copy-paste slip: the second bind group wired like the first.
BuildBindGroupsSameOrder ==
    (0 :> [uniform |-> "uniform_buffer", read |-> 0, write |-> 1]) @@
    (1 :> [uniform |-> "uniform_buffer", read |-> 0, write |-> 1])

\* bind_groups: binding 0 the uniform, binding 1 (read_only storage) and
\* binding 2 (read-write storage) the two cell_states_buffers, swapped in
\* the second group.
BuildBindGroups ==
    (0 :> [uniform |-> "uniform_buffer", read |-> 0, write |-> 1]) @@
    (1 :> [uniform |-> "uniform_buffer", read |-> 1, write |-> 0])

\* queue.write_buffer(&cell_states_buffers[0], ..): buffer 0 holds the seed
\* (generation 0); buffer 1 is created and never written.
SeedBuffers == (0 :> 0) @@ (1 :> Uninit)

\* ----------------------------------------------------------- State::update
\* A tick that fires only when more than compute_delay has passed.
TickDueStrict(n, lt) == n - lt > compute_delay

\* A tick that fires on every frame.
TickDueAlways(n, lt) == TRUE

\* `if now - self.last_time < self.compute_delay { return; }`
TickDue(n, lt) == ~(n - lt < compute_delay)

\* A tick that forgets to record its time.
RecordTickStale(n, lt) == lt

\* `self.last_time = now;`
RecordTick(n, lt) == n

\* What one generation step makes of a buffer's contents: the next
\* generation of a written buffer, and nothing defined of an unwritten one.
NextGen(c) == IF c = Uninit THEN Uninit ELSE c + 1

\* A pass that writes its result over the buffer it reads.
DispatchInPlace(bg, bufs) ==
    [bufs EXCEPT ![bg.read] = NextGen(bufs[bg.read])]

\* The compute pass with bind group bg: reads binding 1, writes binding 2.
Dispatch(bg, bufs) == [bufs EXCEPT ![bg.write] = NextGen(bufs[bg.read])]

\* The count rounded down: the last, partial tile is not dispatched.
WorkgroupCountFloor(n) == n \div WorkgroupEdge

\* `(self.grid_size as f32 / 8.0).ceil() as _`, for a grid of side n
WorkgroupCount(n) == (n + WorkgroupEdge - 1) \div WorkgroupEdge

\* ... for the grid_size of State::new
workgroup_count == WorkgroupCount(grid_size)

\* `compute_pass.dispatch_workgroups(workgroup_count, workgroup_count, 1)`:
\* the global ids of the invocations of workgroup number k (row by row) of
\* a dispatch of wc by wc workgroups of WorkgroupEdge by WorkgroupEdge
\* invocations.
WorkgroupIds(k, wc) ==
    {<<(k % wc) * WorkgroupEdge + lx, (k \div wc) * WorkgroupEdge + ly>> :
        lx \in 0..(WorkgroupEdge - 1), ly \in 0..(WorkgroupEdge - 1)}

\* A neighbour lookup that reads cells beyond the edge as dead.
AtNoWrap(g, n, x, y) ==
    IF x < 0 \/ x >= n \/ y < 0 \/ y >= n THEN 0 ELSE g[y * n + x]

\* The state of cell (x, y) of the flat buffer g of an n by n grid, with
\* the coordinates taken modulo the grid's side.
At(g, n, x, y) == g[((y + n) % n) * n + ((x + n) % n)]

\* The live cells among the 8 neighbours of (x, y).
ActiveNeighbours(g, n, x, y) ==
    At(g, n, x + 1, y + 1) + At(g, n, x + 1, y) + At(g, n, x + 1, y - 1) +
    At(g, n, x, y - 1) + At(g, n, x - 1, y - 1) + At(g, n, x - 1, y) +
    At(g, n, x - 1, y + 1) + At(g, n, x, y + 1)

\* What one invocation writes for its cell.
CellNext(g, n, x, y) ==
    LET a == ActiveNeighbours(g, n, x, y)
    IN  IF a = 3 THEN 1 ELSE IF a = 2 THEN At(g, n, x, y) ELSE 0

\* The buffer a complete pass over g writes.
LifeStep(g, n) ==
    [i \in 0..(n * n - 1) |-> CellNext(g, n, i % n, i \div n)]

\* A toggle that only ever selects set 1.
XorStuck(s) == 1

\* A toggle that is left out.
XorNone(s) == s

\* `self.selected_bind ^= 1;`
Xor1(s) == IF s % 2 = 0 THEN s + 1 ELSE s - 1

\* ----------------------------------------------------------- State::render
\* The draw bound to the set the tick has just left.
RenderBindOther(sel) == 1 - sel

\* `render_pass.set_bind_group(0, &self.bind_groups[self.selected_bind], ..)`
RenderBind(sel) == sel

\* One instance per grid row instead of one per cell.
RenderInstancesRow == grid_size

\* `0..(self.grid_size * self.grid_size)`
RenderInstances == grid_size * grid_size

\* `0..(VERTICES.len() as u32 / 2)`
RenderVertices == VerticesLen \div 2

\* `grid_size`, for a buffer of grid_size * grid_size cells.
GridSide(g) ==
    LET len == Cardinality(DOMAIN g)
    IN  CHOOSE n \in 0..len : n * n = len

\* The compute pass on the cells: the write buffer of bg receives one step
\* of the read buffer.
DispatchCells(bg, c) ==
    [c EXCEPT ![bg.write] = LifeStep(c[bg.read], GridSide(c[bg.read]))]

\* ------------------------------------------- App::window_event, the match
\* Out of memory handled like any other error: logged.
OnRenderResultNoExit(r) ==
    CASE r = "Ok" -> "none"
      [] r = "Lost" -> "resize"
      [] OTHER -> "log"

\* The arms of `match state.render()`.
OnRenderResult(r) ==
    CASE r = "Ok" -> "none"
      [] r = "Lost" -> "resize"
      [] r = "OutOfMemory" -> "exit"
      [] OTHER -> "log"

\* The next redraw requested only after a frame that was drawn.
RequestRedrawOnOk(r) == r = "Ok"

\* `state.window.request_redraw();` follows the match in every arm.
RequestRedraw(r) == TRUE

\* `fn input(&mut self, event: &WindowEvent) -> bool { false }`
input(ev) == FALSE

\* ------------------------------------------------------------------- Init
\* main(): App { state: None }, before the event loop has delivered anything.
AppInit ==
    /\ state_some = FALSE
    /\ size = NoSize
    /\ surface_config = NoSize
    /\ surface = NoSize
    /\ bind_groups = NoBindGroups
    /\ cell_states_buffers = NoBuffers
    /\ selected_bind = 0
    /\ last_time = 0
    /\ now = 0
    /\ exiting = FALSE
    /\ running = TRUE
    /\ redraw_requested = FALSE
    /\ clock_init = 0
    /\ prev_time = 0
    /\ dispatches = 0
    /\ toggles = 0
    /\ draws = 0
    /\ frames = 0
    /\ last_frame = NoFrame
    /\ cells = NoBuffers

\* No compute pass is followed.
PassIdle ==
    /\ pass_n = 0
    /\ pass_in = NoBuffers
    /\ pass_out = NoBuffers
    /\ pass_visits = NoBuffers
    /\ pass_outside = 0
    /\ pass_next = 0

\* The state before the event loop starts, on the small grid: the rng leaves
\* every cell dead, the unwritten buffer holds live cells.
Init ==
    /\ AppInit
    /\ PassIdle
    /\ seed_cells = AllDead(SmallSide)
    /\ stale_cells = AllAlive(SmallSide)

\* The variables of a State, and of the GPU objects it owns.
state_vars == <<size, surface_config, surface, bind_groups,
                cell_states_buffers, selected_bind, last_time, cells>>

\* What the handlers have been observed to issue, and what the rng and the
\* device memory hold for State::new.
observed == <<clock_init, prev_time, dispatches, toggles, draws, frames,
              last_frame, seed_cells, stale_cells>>

\* ----------------------------------------------------------- environment
\* The monotonic clock advances between events, a millisecond at a time.
\* Nothing reads it once event_loop.exit() has been called.
Elapse ==
    /\ running
    /\ ~exiting
    /\ now < (IF state_some THEN MaxTime ELSE MaxStart)
    /\ now' = now + 1
    /\ UNCHANGED <<state_some, state_vars, exiting, running,
                   redraw_requested, observed, pass_vars>>

\* An iteration of the event loop ends without a redraw; the loop stops
\* once event_loop.exit() has been called.
IterationEnd ==
    /\ running
    /\ exiting
    /\ running' = FALSE
    /\ UNCHANGED <<state_some, state_vars, now, exiting, redraw_requested,
                   observed, pass_vars>>

\* ------------------------------------------------------------ App::resumed
\* Creates the window, requests the first redraw and builds the State:
\* State::new with initialise_webgpu configuring the surface to the
\* window's inner size.
resumed ==
    /\ running
    /\ ~exiting
    /\ ~state_some
    /\ \E s \in Sizes :
          /\ size' = s
          /\ surface_config' = s
          /\ surface' = s
    /\ state_some' = TRUE
    /\ redraw_requested' = TRUE
    /\ cell_states_buffers' = SeedBuffers
    /\ bind_groups' = BuildBindGroups
    /\ selected_bind' = 0
    /\ last_time' = now
    /\ clock_init' = now
    /\ prev_time' = now
    /\ dispatches' = 0
    /\ toggles' = 0
    /\ draws' = 0
    /\ frames' = 0
    /\ last_frame' = NoFrame
    /\ cells' = (0 :> seed_cells) @@ (1 :> stale_cells)
    /\ UNCHANGED <<now, exiting, running, seed_cells, stale_cells, pass_vars>>

\* ------------------------------------------------------- App::window_event
\* `let Some(state) = self.state.as_mut() else { return; };`
\* The event is dropped while there is no State.
Dropped == ~state_some

\* `if window_id != state.window.id() { return; }`
\* An event of any kind that names a window other than the State's.
OtherWindowEvent ==
    /\ running
    /\ state_some
    /\ UNCHANGED vars

\* The loop is told to exit and the State is kept, as the out-of-memory arm
\* does.
TeardownExitOnly ==
    /\ exiting' = TRUE
    /\ UNCHANGED <<state_some, state_vars, now, running, redraw_requested,
                   observed, pass_vars>>

\* CloseRequested, or KeyboardInput with the Escape key:
\* `self.state = None; event_loop.exit();`
Teardown ==
    /\ state_some' = FALSE
    /\ exiting' = TRUE
    /\ size' = NoSize
    /\ surface_config' = NoSize
    /\ surface' = NoSize
    /\ bind_groups' = NoBindGroups
    /\ cell_states_buffers' = NoBuffers
    /\ cells' = NoBuffers
    /\ selected_bind' = 0
    /\ last_time' = 0
    /\ redraw_requested' = FALSE
    /\ UNCHANGED <<now, running, observed, pass_vars>>

CloseRequested ==
    /\ running
    /\ IF Dropped \/ input("CloseRequested")
         THEN UNCHANGED vars
         ELSE Teardown

KeyboardEscape ==
    /\ running
    /\ IF Dropped \/ input("KeyboardInput")
         THEN UNCHANGED vars
         ELSE Teardown

\* The new size stored and the surface left as it was configured.
resize_unconfigured(new_size) ==
    /\ size' = new_size
    /\ surface_config' = new_size
    /\ surface' = surface

\* State::resize(new_size)
resize(new_size) ==
    /\ size' = new_size
    /\ surface_config' = new_size
    /\ surface' = new_size

\* WindowEvent::Resized(new_size) => state.resize(new_size)
Resized(new_size) ==
    /\ running
    /\ IF Dropped \/ input("Resized")
         THEN UNCHANGED vars
         ELSE /\ resize(new_size)
              /\ UNCHANGED <<state_some, bind_groups, cell_states_buffers,
                             cells, selected_bind, last_time, now, exiting,
                             running,
                             redraw_requested, observed, pass_vars>>

\* `_ => ()`: any other window event, a key other than Escape included.
OtherEvent ==
    /\ running
    /\ UNCHANGED vars

\* WindowEvent::RedrawRequested with a live State:
\*     state.update();
\*     match state.render() { .. }
\*     state.window.request_redraw();
\* r is what surface.get_current_texture() returns in render.
Frame(r) ==
    LET \* State::update
        due      == TickDue(now, last_time)
        bg       == bind_groups[selected_bind]
        bufs     == IF due THEN Dispatch(bg, cell_states_buffers)
                           ELSE cell_states_buffers
        held     == IF due THEN DispatchCells(bg, cells) ELSE cells
        sel      == IF due THEN Xor1(selected_bind) ELSE selected_bind
        lt       == IF due THEN RecordTick(now, last_time) ELSE last_time
        \* State::render: `?` returns before anything is encoded
        drawn    == r = "Ok"
        bind     == RenderBind(sel)
        \* the match on render's result
        arm      == OnRenderResult(r)
        redraw   == RequestRedraw(r)
    IN  /\ cell_states_buffers' = bufs
        /\ cells' = held
        /\ selected_bind' = sel
        /\ last_time' = lt
        /\ prev_time' = IF due THEN last_time ELSE prev_time
        /\ dispatches' = dispatches + (IF due THEN 1 ELSE 0)
        /\ toggles' = toggles + (IF due THEN 1 ELSE 0)
        /\ draws' = draws + (IF drawn THEN 1 ELSE 0)
        /\ frames' = frames + 1
        /\ IF arm = "resize"
             THEN resize(size)
             ELSE UNCHANGED <<size, surface_config, surface>>
        /\ exiting' = (exiting \/ arm = "exit")
        /\ redraw_requested' = redraw
        /\ last_frame' =
             [result |-> r,
              periods |-> (now - last_time) \div compute_delay,
              dispatched |-> IF due THEN 1 ELSE 0,
              draws |-> IF drawn THEN 1 ELSE 0,
              draw_bind |-> IF drawn THEN bind ELSE 0,
              draw_vertices |-> IF drawn THEN RenderVertices ELSE 0,
              draw_instances |-> IF drawn THEN RenderInstances ELSE 0,
              draw_reads |-> IF drawn THEN bufs[bind_groups[bind].read]
                                      ELSE Uninit,
              configured |-> arm = "resize",
              configured_size |-> IF arm = "resize" THEN size ELSE NoSize,
              redraw |-> redraw,
              exit |-> arm = "exit",
              draw_cells |-> IF drawn THEN held[bind_groups[bind].read]
                                      ELSE NoBuffers]
        /\ UNCHANGED <<state_some, bind_groups, now, clock_init, seed_cells,
                       stale_cells, pass_vars>>

\* RedrawRequested is the last event of an iteration of the event loop:
\* after it the loop stops if event_loop.exit() has been called.
RedrawRequested(r) ==
    /\ running
    /\ IF Dropped \/ input("RedrawRequested")
         THEN /\ running' = ~exiting
              /\ UNCHANGED <<state_some, state_vars, now, exiting,
                             redraw_requested, observed, pass_vars>>
         ELSE /\ redraw_requested
              /\ frames < MaxFrames
              /\ Frame(r)
              /\ running' = ~exiting'

\* ------------------------------------------------------------------- Next
Next ==
    \/ Elapse
    \/ IterationEnd
    \/ resumed
    \/ CloseRequested
    \/ KeyboardEscape
    \/ \E s \in Sizes : Resized(s)
    \/ OtherEvent
    \/ \E r \in AcquireResults : RedrawRequested(r)
    \/ OtherWindowEvent

Spec == Init /\ [][Next]_vars

\* The application from end to end, whatever the unwritten buffer holds.
EndToEndInit ==
    /\ AppInit
    /\ PassIdle
    /\ seed_cells = AllDead(EndToEndSide)
    /\ stale_cells \in StaleContents

EndToEndSpec == EndToEndInit /\ [][Next]_vars

\* ------------------------------------------------------- one compute pass
\* The pass of State::update on its own: grid side and read buffer are the
\* inputs, the write buffer starts unwritten.
PassInit ==
    /\ AppInit
    /\ seed_cells = AllDead(SmallSide)
    /\ stale_cells = AllAlive(SmallSide)
    /\ \E in \in PassInputs :
          /\ pass_n = in.n
          /\ pass_in = [i \in 0..(in.n * in.n - 1) |-> in.cells[i]]
          /\ pass_out = Unwritten(in.n)
          /\ pass_visits = AllDead(in.n)
    /\ pass_outside = 0
    /\ pass_next = 0

PassDone == pass_next = WorkgroupCount(pass_n) * WorkgroupCount(pass_n)

\* The next workgroup of the dispatch runs its invocations: one whose id
\* lies in the grid writes the next state of its cell to the write buffer.
Workgroup ==
    /\ pass_n > 0
    /\ ~PassDone
    /\ LET n      == pass_n
           ids    == WorkgroupIds(pass_next, WorkgroupCount(n))
           inside == {id \in ids : id[1] < n /\ id[2] < n}
       IN  /\ pass_out' =
                [i \in 0..(n * n - 1) |->
                    IF <<i % n, i \div n>> \in inside
                      THEN CellNext(pass_in, n, i % n, i \div n)
                      ELSE pass_out[i]]
           /\ pass_visits' =
                [i \in 0..(n * n - 1) |->
                    pass_visits[i] +
                    Cardinality({id \in inside : id[2] * n + id[1] = i})]
           /\ pass_outside' = pass_outside + Cardinality(ids \ inside)
    /\ pass_next' = pass_next + 1
    /\ UNCHANGED <<pass_n, pass_in, app_vars>>

PassNext == Workgroup

PassSpec == PassInit /\ [][PassNext]_vars

\* A requested redraw is delivered: winit answers window.request_redraw()
\* with a RedrawRequested event for that window.
FairSpec ==
    Spec /\ WF_vars(\E r \in AcquireResults : RedrawRequested(r))

\* A step in which a live State handled a RedrawRequested event.
FrameStep == frames' = frames + 1

\* ----------------------------------------------------------------- claims

\* C1: the two bind groups never alias: in each the read buffer differs from
\* the write buffer, set 0 reads buffer 0 and writes buffer 1, set 1 reads
\* buffer 1 and writes buffer 0, in every state in which the State exists.
C1_BindGroupsMirror ==
    state_some =>
        /\ DOMAIN bind_groups = {0, 1}
        /\ \A i \in {0, 1} : bind_groups[i].read # bind_groups[i].write
        /\ bind_groups[0].read = 0 /\ bind_groups[0].write = 1
        /\ bind_groups[1].read = bind_groups[0].write
        /\ bind_groups[1].write = bind_groups[0].read

\* Both sets have been used by a tick and the surface has been reconfigured.
C1_Witness ==
    /\ state_some
    /\ dispatches = 2
    /\ last_frame.result = "Lost"

\* C2: the selected index starts at 0 and after N dispatched ticks has been
\* toggled N times and equals N mod 2.
C2_SelectedIsParity ==
    state_some =>
        /\ toggles = dispatches
        /\ selected_bind = dispatches % 2
        /\ (frames = 0 => selected_bind = 0)

\* Two ticks have run and the index is back at 0.
C2_Witness == state_some /\ dispatches = 2 /\ selected_bind = 0

\* C3: the ticks dispatched number at most floor(elapsed / T), elapsed being
\* the time since the clock was initialised, and two consecutive recorded
\* tick times differ by at least T.
C3_AtMostOneTickPerInterval ==
    state_some =>
        /\ dispatches <= (now - clock_init) \div compute_delay
        /\ dispatches * compute_delay <= last_time - clock_init
        /\ dispatches >= 1 => last_time - prev_time >= compute_delay

\* Three frames arrived within less than two intervals: one tick only.
C3_Witness ==
    /\ state_some
    /\ frames = 3
    /\ dispatches = 1
    /\ now - clock_init < 2 * compute_delay

\* C4: a frame dispatches the simulation once if the time since the last
\* recorded tick is at least the interval and not at all otherwise, never
\* more than once; nothing but a frame dispatches.
C4_ZeroOrOneTickPerFrame ==
    [][/\ FrameStep =>
            dispatches' - dispatches =
                IF now - last_time >= compute_delay THEN 1 ELSE 0
       /\ ~FrameStep => dispatches' = dispatches]_vars

\* A frame that came two whole intervals after the last tick ran one tick.
C4_Witness ==
    /\ state_some
    /\ last_frame.periods >= 2
    /\ last_frame.dispatched = 1
    /\ dispatches = 1

\* C5: the read buffer of the selected set holds the newest generation (the
\* seed while no tick has run), the other buffer the one before it or
\* nothing; a draw reads the newest generation, never an unwritten buffer.
C5_SelectedReadsNewest ==
    state_some =>
        /\ cell_states_buffers[bind_groups[selected_bind].read] = dispatches
        /\ cell_states_buffers[bind_groups[selected_bind].write] =
              (IF dispatches = 0 THEN Uninit ELSE dispatches - 1)
        /\ (dispatches = 0 => bind_groups[selected_bind].read = 0)
        /\ last_frame.draws = 1 =>
              /\ last_frame.draw_reads = dispatches
              /\ last_frame.draw_reads # Uninit

\* A frame ran the first tick and drew buffer 1.
C5_Witness ==
    /\ state_some
    /\ dispatches = 1
    /\ last_frame.dispatched = 1
    /\ last_frame.draws = 1
    /\ bind_groups[last_frame.draw_bind].read = 1

\* C6: every frame whose target acquisition succeeds issues exactly one
\* draw, of grid_size * grid_size instances, with the selected bind group,
\* whether or not a tick ran in it.
C6_OneDrawPerAcquiredFrame ==
    [][FrameStep /\ last_frame'.result = "Ok" =>
           /\ draws' = draws + 1
           /\ last_frame'.draws = 1
           /\ last_frame'.draw_instances = grid_size * grid_size
           /\ last_frame'.draw_bind = selected_bind']_vars

\* Two frames were drawn: a tick ran in the first and none in the second.
C6_Witness ==
    /\ state_some
    /\ frames = 2
    /\ draws = 2
    /\ dispatches = 1
    /\ last_frame.dispatched = 0
    /\ last_frame.result = "Ok"

\* C7: a frame whose acquisition fails as lost or as outdated reconfigures
\* the surface with the stored window size and issues no draw.
C7_LostOrOutdatedReconfigures ==
    [][FrameStep /\ last_frame'.result \in {"Lost", "Outdated"} =>
           /\ last_frame'.configured
           /\ last_frame'.configured_size = size
           /\ surface' = size
           /\ draws' = draws]_vars

\* C8 as claimed: a frame whose acquisition fails as lost or outdated has
\* issued neither a dispatch nor a draw, and leaves the selected index, the
\* last-tick time and the buffers as they were.
C8_FailedFrameChangesNothing ==
    [][FrameStep /\ last_frame'.result \in {"Lost", "Outdated"} =>
           /\ dispatches' = dispatches
           /\ draws' = draws
           /\ selected_bind' = selected_bind
           /\ last_time' = last_time
           /\ cell_states_buffers' = cell_states_buffers]_vars

\* C8 amended: such a frame issues no draw; update has run before the
\* acquisition, so if the interval had elapsed one tick was dispatched (the
\* index toggled, the time recorded, the write buffer given the next
\* generation, the read buffer untouched), and otherwise the index, the
\* time and the buffers are as they were.
C8_FailedFrameSkipsOnlyTheDraw ==
    [][FrameStep /\ last_frame'.result \in {"Lost", "Outdated"} =>
           /\ draws' = draws
           /\ IF now - last_time >= compute_delay
                THEN /\ dispatches' = dispatches + 1
                     /\ selected_bind' = 1 - selected_bind
                     /\ last_time' = now
                     /\ cell_states_buffers' =
                           [cell_states_buffers EXCEPT
                              ![bind_groups[selected_bind].write] =
                                 cell_states_buffers[
                                    bind_groups[selected_bind].read] + 1]
                ELSE /\ dispatches' = dispatches
                     /\ selected_bind' = selected_bind
                     /\ last_time' = last_time
                     /\ cell_states_buffers' = cell_states_buffers]_vars

\* A frame lost its surface after its tick had been dispatched.
C8_Witness ==
    /\ state_some
    /\ last_frame.result = "Lost"
    /\ last_frame.dispatched = 1
    /\ last_frame.draws = 0
    /\ selected_bind = 1

\* C9: once acquisition has reported out of memory, exit has been called,
\* the loop has stopped, and no dispatch or draw is issued any more.
C9_OutOfMemoryIsTerminal ==
    /\ [](last_frame.result = "OutOfMemory" => exiting /\ ~running)
    /\ [][last_frame.result = "OutOfMemory" =>
             /\ dispatches' = dispatches
             /\ draws' = draws
             /\ frames' = frames]_vars

\* Out of memory was reported in a frame whose tick had been dispatched,
\* with the State still present and a redraw requested.
C9_Witness ==
    /\ last_frame.result = "OutOfMemory"
    /\ last_frame.dispatched = 1
    /\ state_some
    /\ redraw_requested

\* C10: an acquisition error other than lost and out of memory only skips
\* the draw; after every frame that does not end in out of memory the next
\* redraw is requested and the loop runs on, so that frames keep following
\* (up to the MaxFrames modelled) unless the State is torn down first.
C10_LoopContinues ==
    /\ [][FrameStep /\ last_frame'.result # "OutOfMemory" =>
             /\ redraw_requested'
             /\ running'
             /\ ~exiting'
             /\ state_some'
             /\ last_frame'.result \notin {"Ok", "Lost"} =>
                   /\ draws' = draws
                   /\ surface' = surface
                   /\ size' = size]_vars
    /\ <>[](\/ frames = MaxFrames
            \/ ~state_some
            \/ last_frame.result = "OutOfMemory")

\* A frame was skipped on a timeout; the State is live, the loop runs and
\* the next redraw is requested.
C10_Witness ==
    /\ state_some
    /\ last_frame.result = "Timeout"
    /\ last_frame.draws = 0
    /\ frames = 2
    /\ redraw_requested
    /\ running

\* C11: a close request or an Escape key tears the State down at once and
\* calls exit; while the State is absent no event dispatches, draws or
\* configures the surface (only resumed, which builds the State, does).
C11_TeardownAndAbsentState ==
    /\ [][state_some /\ ~exiting /\ exiting' /\ ~FrameStep =>
             /\ ~state_some'
             /\ dispatches' = dispatches
             /\ draws' = draws
             /\ surface' = NoSize]_vars
    /\ [](~state_some => surface = NoSize /\ cell_states_buffers = NoBuffers)
    /\ [][~state_some /\ ~state_some' =>
             /\ dispatches' = dispatches
             /\ draws' = draws
             /\ frames' = frames
             /\ last_frame' = last_frame
             /\ surface' = surface
             /\ cell_states_buffers' = cell_states_buffers]_vars

\* The State was torn down after a tick and a draw, and the loop has not
\* stopped yet: events still arrive.
C11_Witness ==
    /\ ~state_some
    /\ exiting
    /\ running
    /\ dispatches >= 1
    /\ draws >= 1

\* C12: the selected index and the last-tick time change only in a step that
\* dispatches, and a dispatching step toggles the index exactly once and
\* records the time.
C12_IndexAndTimeOnlyWithDispatch ==
    [][state_some /\ state_some' =>
         /\ (selected_bind' # selected_bind \/ last_time' # last_time) =>
               dispatches' = dispatches + 1
         /\ dispatches' # dispatches =>
               /\ dispatches' = dispatches + 1
               /\ toggles' = toggles + 1
               /\ selected_bind' = 1 - selected_bind
               /\ last_time' = now]_vars

\* After the first tick, a frame in which no tick was due lost its surface
\* and was reconfigured: the index is still 1.
C12_Witness ==
    /\ state_some
    /\ dispatches = 1
    /\ last_frame.result = "Lost"
    /\ last_frame.dispatched = 0
    /\ selected_bind = 1
    /\ last_time < now

\* C13: once seeded, the buffers change only in a step that dispatches, and
\* that step changes the write buffer of the set selected before it and
\* leaves the read buffer of that set untouched.
C13_OnlyTickWritesOnlyWriteBuffer ==
    [][state_some /\ state_some' =>
         LET rd == bind_groups[selected_bind].read
             wr == bind_groups[selected_bind].write
         IN  IF dispatches' = dispatches + 1
               THEN /\ cell_states_buffers'[rd] = cell_states_buffers[rd]
                    /\ cell_states_buffers'[wr] = cell_states_buffers[rd] + 1
                    /\ cell_states_buffers'[wr] # cell_states_buffers[wr]
               ELSE cell_states_buffers' = cell_states_buffers]_vars

\* Two ticks have run: buffer 1 holds generation 1, buffer 0 generation 2,
\* and a drawn frame came last.
C13_Witness ==
    /\ state_some
    /\ cell_states_buffers[0] = 2
    /\ cell_states_buffers[1] = 1
    /\ last_frame.result = "Ok"

\* C17: the surface is configured to the stored window size in every state
\* with a State, after a Resized event and after a lost surface alike, and
\* a step that changes the stored size changes neither the index, the
\* last-tick time nor the buffers, and issues no dispatch or draw.
C17_SurfaceFollowsSize ==
    /\ [](state_some =>
             /\ size \in Sizes
             /\ surface_config = size
             /\ surface = surface_config)
    /\ [][state_some /\ state_some' /\ size' # size =>
             /\ selected_bind' = selected_bind
             /\ last_time' = last_time
             /\ cell_states_buffers' = cell_states_buffers
             /\ dispatches' = dispatches
             /\ draws' = draws
             /\ frames' = frames]_vars

\* A lost surface was reconfigured with the size stored then, and a Resized
\* event has changed the size since, after a tick.
C17_Witness ==
    /\ state_some
    /\ last_frame.configured
    /\ last_frame.configured_size # size
    /\ dispatches >= 1

\* C14: a dispatch of ceil(n / 8) by ceil(n / 8) workgroups of 8 by 8
\* invocations has, when it is complete, run exactly one invocation for
\* every cell of the n by n grid, and never more than one; with n a multiple
\* of 8, as the configured 512 is, no invocation lies outside the grid.
C14_EveryCellVisitedOnce ==
    /\ \A i \in DOMAIN pass_visits : pass_visits[i] <= 1
    /\ PassDone /\ pass_n > 0 =>
          /\ DOMAIN pass_visits = 0..(pass_n * pass_n - 1)
          /\ \A i \in DOMAIN pass_visits : pass_visits[i] = 1
          /\ pass_outside =
                (WorkgroupCount(pass_n) * WorkgroupEdge) *
                (WorkgroupCount(pass_n) * WorkgroupEdge) - pass_n * pass_n
          /\ pass_n % WorkgroupEdge = 0 => pass_outside = 0
    /\ workgroup_count * WorkgroupEdge = grid_size
    /\ workgroup_count = 64

\* A complete pass over a 9 by 9 grid: 2 by 2 workgroups, the boundary tiles
\* reaching beyond the grid.
C14_Witness ==
    /\ pass_n = 9
    /\ PassDone
    /\ pass_next = 4
    /\ pass_outside = 175

\* C15: a complete pass writes the standard Life rule with toroidal
\* wraparound for every cell: with the neighbours' coordinates wrapped to
\* the opposite edge, a dead cell with exactly 3 live neighbours becomes
\* alive, a live cell with 2 or 3 stays alive, every other cell is dead; the
\* read buffer is left as it was.
C15_LifeRuleOnTorus ==
    PassDone /\ pass_n > 0 =>
        LET n == pass_n
            Left(c) == IF c = 0 THEN n - 1 ELSE c - 1
            Right(c) == IF c = n - 1 THEN 0 ELSE c + 1
            Alive(x, y) == pass_in[y * n + x] = 1
            Count(x, y) ==
                LET nb == << <<Left(x), Left(y)>>, <<x, Left(y)>>,
                             <<Right(x), Left(y)>>, <<Left(x), y>>,
                             <<Right(x), y>>, <<Left(x), Right(y)>>,
                             <<x, Right(y)>>, <<Right(x), Right(y)>> >>
                IN  Cardinality({k \in 1..8 : Alive(nb[k][1], nb[k][2])})
        IN  /\ \A x \in 0..(n - 1), y \in 0..(n - 1) :
                 pass_out[y * n + x] =
                     IF \/ ~Alive(x, y) /\ Count(x, y) = 3
                        \/ Alive(x, y) /\ Count(x, y) \in {2, 3}
                       THEN 1 ELSE 0
            /\ pass_out = LifeStep(pass_in, n)

\* On a 3 by 3 grid the dead cell (0, 0) was born of three live neighbours
\* all reached around the edges: (2, 2), (2, 0) and (0, 2).
C15_Witness ==
    /\ pass_n = 3
    /\ PassDone
    /\ pass_in = GridOf(3, {8, 2, 6})
    /\ pass_out[0] = 1

\* C16: with every cell of the seed dead, whatever the unwritten buffer 1
\* holds, the read buffer of the selected set is all dead in every state and
\* every draw has read an all-dead buffer.
C16_AllDeadStaysAllDead ==
    state_some /\ seed_cells = AllDead(EndToEndSide) =>
        /\ cells[bind_groups[selected_bind].read] = AllDead(EndToEndSide)
        /\ last_frame.draws = 1 =>
              last_frame.draw_cells = AllDead(EndToEndSide)
        /\ dispatches = 0 => cells[1] = stale_cells

\* Two ticks have run and a frame was drawn; the live cells the unwritten
\* buffer 1 held have been overwritten without having been shown.
C16_Witness ==
    /\ state_some
    /\ seed_cells = AllDead(EndToEndSide)
    /\ stale_cells # AllDead(EndToEndSide)
    /\ dispatches = 2
    /\ last_frame.draws = 1
    /\ cells[1] = AllDead(EndToEndSide)

====
